---- MODULE Spec2Model ----
(***************************************************************************)
(* A model of the `sedge cli` command (src/cli/cli.go): the pre-run        *)
(* validation of the flags (preRunCliCmd), the run step (runCliCmd) cut at *)
(* each call it makes to a collaborator, and the collaborators the run     *)
(* step relies on (client resolution, script generation, the cleanup pass, *)
(* the sync tracker), which are described by spec.md.                      *)
(*                                                                         *)
(* Strings that the code parses (client flags, paths, addresses, lines of  *)
(* the environment file) are sequences of tokens, so that splitting,       *)
(* joining and cleaning are computed and not assumed.                      *)
(***************************************************************************)
EXTENDS Integers, Sequences, FiniteSets, TLC

\* ------------------------------------------------------------------ bounds

\* Largest number of dependency checks that report a pending dependency.
MaxDepRounds == 2

\* The sync tracker's deadline, in ticks.
MaxTicks == 2

\* Longest run-clients list of the pre-run specification.
MaxServices == 2

\* Longest document of the cleanup specification.
MaxDocLen == 4

\* Longest execution flag, in pieces, of the specification of the client flags.
MaxFlagLen == 3

\* ------------------------------------------------------- program constants

\* "Is a 20-byte Ethereum address": two hexadecimal digits per byte.
AddressBytes == 20

execution == "execution"

consensus == "consensus"

validator == "validator"

\* ---------------------------------------------------------- string helpers

Contains(list, x) == \E i \in 1..Len(list) : list[i] = x

ContainsOnly(list, target) == \A i \in 1..Len(list) : Contains(target, list[i])

FilterNot(list, x) == SelectSeq(list, LAMBDA s : s # x)

FirstIndex(s, x) == CHOOSE i \in 1..Len(s) : s[i] = x /\ \A j \in 1..(i-1) : s[j] # x

\* strings.Split(s, sep): the pieces of s between the separators, all of them.
RECURSIVE Split(_, _)
Split(s, sep) ==
    IF ~Contains(s, sep) THEN <<s>>
    ELSE LET i == FirstIndex(s, sep)
         IN  <<SubSeq(s, 1, i-1)>> \o Split(SubSeq(s, i+1, Len(s)), sep)

\* strings.Join(parts, sep)
RECURSIVE Join(_, _)
Join(parts, sep) ==
    IF parts = <<>> THEN <<>>
    ELSE IF Len(parts) = 1 THEN parts[1]
    ELSE parts[1] \o <<sep>> \o Join(Tail(parts), sep)

Count(list, x) == Cardinality({i \in 1..Len(list) : list[i] = x})

\* ------------------------------------------------------------------- paths

\* filepath.IsAbs on a slash-separated path
IsAbs(p) == Len(p) > 0 /\ p[1] = "/"

\* The elements of a path that filepath.Clean keeps, ".." resolved.
RECURSIVE CleanElems(_, _)
CleanElems(elems, acc) ==
    IF elems = <<>> THEN acc
    ELSE LET e == Head(elems)
         IN  IF e = <<>> \/ e = <<".">> THEN CleanElems(Tail(elems), acc)
             ELSE IF e = <<"..">>
                  THEN CleanElems(Tail(elems),
                                  IF acc = <<>> THEN acc ELSE SubSeq(acc, 1, Len(acc)-1))
                  ELSE CleanElems(Tail(elems), Append(acc, e))

\* filepath.Clean of a rooted path
CleanAbs(p) == <<"/">> \o Join(CleanElems(Split(p, "/"), <<>>), "/")

\* --------------------------------------------------------------- addresses

HexDigits == {"a", "0"}

\* A check of the address that takes hexadecimal digits of any number.
IsAddress_AnyLength(a) ==
    /\ Len(a) >= 1
    /\ a[1] = "0x"
    /\ \A i \in 2..Len(a) : a[i] \in HexDigits

\* utils.IsAddress: "0x" followed by the hexadecimal digits of 20 bytes
IsAddress(a) ==
    /\ Len(a) = 1 + 2 * AddressBytes
    /\ a[1] = "0x"
    /\ \A i \in 2..Len(a) : a[i] \in HexDigits

ValidAddress == <<"0x">> \o [i \in 1..(2 * AddressBytes) |-> "a"]

ShortAddress == <<"0x", "a", "0">>

\* an address of the right length with a digit that is not hexadecimal
NonHexAddress == <<"0x", "g">> \o [i \in 1..(2 * AddressBytes - 1) |-> "a"]

\* ------------------------------------------------- registries (spec.md 2, 3)

\* utils.SupportedNetworks(): the networks that have templates
SupportedNetworks == <<"mainnet", "sepolia", "premerge">>

UnknownNetwork == "unknownnet"

\* configs.NetworksConfigs[network].RequireJWT
RequireJWT(n) == n \in {"mainnet", "sepolia"}

\* Client Catalog: the clients supported per network and role
Catalog(n) ==
    IF n \in {"mainnet", "sepolia"}
    THEN [execution |-> {<<"geth">>, <<"nethermind">>},
          consensus |-> {<<"prysm">>, <<"teku">>},
          validator |-> {<<"prysm">>, <<"teku">>}]
    ELSE [execution |-> {<<"geth">>},
          consensus |-> {<<"teku">>},
          validator |-> {<<"teku">>}]

\* Whether a consensus and a validator client are of one compatibility family.
\* The families are data of the network that is given nowhere: a client is of
\* the family of itself, and for two clients either answer is possible.
CompatibleValues(c, v) == IF c = v THEN {TRUE} ELSE BOOLEAN

\* A ClientSpec
ClientSpec(role, name) == [role |-> role, name |-> name, image |-> <<>>, omitted |-> FALSE]

\* ---------------------------------------- Combination Validator (spec.md 4.1)

\* Resolve(network, requested names): the first failing check decides the error;
\* compatible tells whether c and v are of one family.
Resolve(n, e, c, v, omitV, compatible) ==
    IF ~Contains(SupportedNetworks, n)
    THEN [err |-> <<"UnsupportedNetworkError", n>>]
    ELSE IF e \notin Catalog(n).execution
    THEN [err |-> <<"UnsupportedClientError", execution, e>>]
    ELSE IF c \notin Catalog(n).consensus
    THEN [err |-> <<"UnsupportedClientError", consensus, c>>]
    ELSE IF ~omitV /\ v \notin Catalog(n).validator
    THEN [err |-> <<"UnsupportedClientError", validator, v>>]
    ELSE IF ~omitV /\ ~compatible
    THEN [err |-> <<"IncompatiblePairError", c, v>>]
    ELSE [err |-> <<>>,
          Execution |-> ClientSpec(execution, e),
          Consensus |-> ClientSpec(consensus, c),
          Validator |-> [ClientSpec(validator, v) EXCEPT !.omitted = omitV]]

\* The clients the selection step may fill in for a role whose flag is empty.
RoleChoices(n, role, name) ==
    IF name # <<>> THEN {name}
    ELSE IF role = execution THEN Catalog(n).execution
    ELSE Catalog(n).consensus

\* An empty validator flag follows the consensus client.
ValidatorChoice(c, v) == IF v = <<>> THEN c ELSE v

\* ------------------------------------------- Template Composer (spec.md 4.2)

ImageOrDefault(client) == IF client.image # <<>> THEN client.image ELSE client.name

\* the literal the template puts for RELAY_URL when .RelayURL is empty
DefaultRelayURL ==
    <<"https://0xafa4c6985aa049fb79dd37010438cfebeb0f2bd42b115b89dd678dab0670c1de38da0c4e9138c9290a398ecd9a0b3110@builder-relay-goerli.flashbots.net">>

\* A relay value that puts the given relays after the default.
RelayValue_Appends(gd) ==
    IF gd.RelayURL # <<>> THEN DefaultRelayURL \o <<",">> \o gd.RelayURL
    ELSE DefaultRelayURL

\* {{if .RelayURL}}{{.RelayURL}}{{else}}the literal{{end}}
RelayValue(gd) == IF gd.RelayURL # <<>> THEN gd.RelayURL ELSE DefaultRelayURL

\* The env_base.tmpl under src/: the body starts with the line break that
\* follows the define action; the comment line and the NETWORK line are
\* literals of the file (.Network is not read); RELAY_URL is emitted only
\* under .Mev
EnvBase(gd) ==
    << <<>>, <<"# --- Global configuration ---">>, <<"NETWORK", "=", "goerli">> >>
    \o (IF gd.Mev THEN << <<"RELAY_URL", "=">> \o RelayValue(gd) >> ELSE <<>>)

EnvExecution(gd) ==
    << <<>>, <<"EC_IMAGE_VERSION", "=">> \o ImageOrDefault(gd.ExecutionClient),
       <<"EC_JWT_SECRET_PATH", "=">> \o gd.JWTSecretPath >>

EnvConsensus(gd) ==
    << <<>>, <<"CC_IMAGE_VERSION", "=">> \o ImageOrDefault(gd.ConsensusClient),
       <<"FEE_RECIPIENT", "=">> \o gd.FeeRecipient, <<>> >>

EnvValidator(gd) ==
    IF gd.ValidatorClient.omitted THEN << <<>> >>
    ELSE << <<>>, <<"VL_IMAGE_VERSION", "=">> \o ImageOrDefault(gd.ValidatorClient) >>

\* The environment document: the base, then the fragment of each role.
EnvDocument(gd) == EnvBase(gd) \o EnvExecution(gd) \o EnvConsensus(gd) \o EnvValidator(gd)

\* The manifest: one service per role present, plus mev-boost under .Mev
ComposeDocument(gd) ==
    << <<"services">>, <<"service", execution>>, <<"service", consensus>> >>
    \o (IF gd.ValidatorClient.omitted THEN <<>> ELSE << <<"service", validator>> >>)
    \o (IF gd.Mev THEN << <<"service", "mev-boost">> >> ELSE <<>>)

\* ------------------------------------------------ cleanup pass (spec.md 4.3)

\* A line of the form KEY= : a key, the first "=" of the line, and nothing after.
IsEmptyAssign(line) ==
    /\ Contains(line, "=")
    /\ FirstIndex(line, "=") = Len(line)
    /\ Len(line) > 1

RemoveEmptyAssigns(doc) == SelectSeq(doc, LAMBDA l : ~IsEmptyAssign(l))

\* Consecutive blank lines collapse to one.
RECURSIVE CollapseBlanks(_)
CollapseBlanks(doc) ==
    IF Len(doc) < 2 THEN doc
    ELSE IF doc[1] = <<>> /\ doc[2] = <<>> THEN CollapseBlanks(Tail(doc))
    ELSE <<doc[1]>> \o CollapseBlanks(Tail(doc))

\* The pass collapses blank lines before the removal it makes can join them.
CleanDoc_CollapseFirst(doc) == RemoveEmptyAssigns(CollapseBlanks(doc))

\* The cleanup pass: remove the empty assignments, then collapse the blank lines.
CleanDoc(doc) == CollapseBlanks(RemoveEmptyAssigns(doc))

\* ------------------------------------------------------------------- state

VARIABLES
    \* the flags of the command (cli.go, var block)
    y, install, run, services, noValidator, noMev, network, feeRecipient, jwtPath,
    loggingFlag, executionName, executionImage, consensusName, consensusImage,
    validatorName, validatorImage,
    \* the position in PreRun / Run, the errors returned, the process exit code
    \* (-1 while the process runs)
    pc, errs, exitCode,
    \* the calls made to collaborators, in order
    calls,
    \* the locals of runCliCmd; pending is the result of the last dependency check
    combinedClients, gd, pending,
    \* the machine: installs made, a generated secret, files, running services
    depsInstalled, jwtGenerated, envFile, composeFile, containers,
    \* the sync tracker
    syncState, elSynced, clSynced, ticks, lastQueried, lastError, warnings,
    \* the input and the successive results of a function applied on its own
    probeIn, probeOut

flagVars == <<y, install, run, services, noValidator, noMev, network, feeRecipient,
              jwtPath, loggingFlag, executionName, executionImage, consensusName,
              consensusImage, validatorName, validatorImage>>

machineVars == <<depsInstalled, jwtGenerated, envFile, composeFile, containers>>

syncVars == <<syncState, elSynced, clSynced, ticks, lastQueried, lastError, warnings>>

probeVars == <<probeIn, probeOut>>

vars == <<flagVars, pc, errs, exitCode, calls, combinedClients, gd, pending, machineVars,
          syncVars, probeVars>>

\* ------------------------------------------------------------------ inputs

\* run-clients values: the default, the two shortcuts, a single role, an
\* ambiguous list and an unknown role
ServiceLists ==
    { <<execution, consensus>>, <<"all">>, <<"none">>, <<validator>>,
      <<"all", "none">>, <<"bogus">> }

ServiceValues == {execution, consensus, validator, "all", "none", "bogus"}

\* every list of run-clients values of a length up to n
RECURSIVE ListsUpTo(_)
ListsUpTo(n) ==
    IF n = 0 THEN {<<>>}
    ELSE LET shorter == ListsUpTo(n - 1)
         IN  shorter \cup {Append(l, v) : l \in {x \in shorter : Len(x) = n - 1}, v \in ServiceValues}

\* the network flag: its default, two other networks, one that is not known
NetworkValues == {"mainnet", "sepolia", "premerge", UnknownNetwork}

FeeRecipientValues == {<<>>, ValidAddress, ShortAddress, NonHexAddress}

\* no path, an absolute one, an absolute one that is not clean, a relative one
JwtPathValues == {<<>>, <<"/", "jwt">>, <<"/", ".", "/", "jwt">>, <<"jwt">>}

LoggingValues == {"json", "bogus"}

\* configs.ValidLoggingFlags()
ValidLoggingFlags == {"json", "none"}

\* the execution, consensus and validator flags, as given on the command line
ClientFlagValues ==
    { << <<>>, <<>>, <<>> >>,
      << <<"geth", ":", "repo/geth", ":", "v1">>, <<"teku">>, <<>> >>,
      << <<"geth">>, <<"prysm">>, <<"teku">> >>,
      << <<"bogus">>, <<"prysm">>, <<"prysm">> >> }

\* the values of the variables that a flag does not set
InitRest ==
    /\ executionImage = <<>> /\ consensusImage = <<>> /\ validatorImage = <<>>
    /\ errs = <<>> /\ exitCode = -1 /\ calls = <<>>
    /\ combinedClients = <<>> /\ gd = <<>> /\ pending = <<>>
    /\ depsInstalled = 0 /\ jwtGenerated = FALSE
    /\ envFile = <<>> /\ composeFile = <<>> /\ containers = {}
    /\ syncState = "idle" /\ elSynced = FALSE /\ clSynced = FALSE /\ ticks = 0
    /\ lastQueried = {} /\ lastError = "" /\ warnings = {}

Init ==
    /\ y \in BOOLEAN /\ install \in BOOLEAN /\ run \in BOOLEAN
    /\ services \in ServiceLists
    /\ noValidator \in BOOLEAN /\ noMev \in BOOLEAN
    /\ network \in NetworkValues
    /\ feeRecipient \in FeeRecipientValues
    /\ jwtPath \in JwtPathValues
    /\ loggingFlag \in LoggingValues
    /\ \E f \in ClientFlagValues :
          executionName = f[1] /\ consensusName = f[2] /\ validatorName = f[3]
    /\ pc = "PreRun"
    \* probeIn keeps the run-clients list as given
    /\ probeIn = services /\ probeOut = <<>>
    /\ InitRest

\* ---------------------------------------------------------------- preRunCliCmd

\* A validation that takes 'all' and 'none' whatever else the list holds.
ValidateRunClients_NoAmbiguity(svc) ==
    IF Contains(svc, "all") THEN [err |-> "", services |-> <<execution, consensus, validator>>]
    ELSE IF Contains(svc, "none") THEN [err |-> "", services |-> <<>>]
    ELSE IF ~ContainsOnly(svc, <<execution, consensus, validator>>)
         THEN [err |-> "RunClientsError", services |-> svc]
         ELSE [err |-> "", services |-> svc]

\* Validate run-clients flag: the error, and the list pre-run goes on with.
ValidateRunClients(svc) ==
    IF Contains(svc, "all")
    THEN IF Len(svc) = 1
         THEN [err |-> "", services |-> <<execution, consensus, validator>>]
         ELSE [err |-> "RunClientsFlagAmbiguousError", services |-> svc]
    ELSE IF Contains(svc, "none")
    THEN IF Len(svc) = 1
         THEN [err |-> "", services |-> <<>>]
         ELSE [err |-> "RunClientsFlagAmbiguousError", services |-> svc]
    ELSE IF ~ContainsOnly(svc, <<execution, consensus, validator>>)
    THEN [err |-> "RunClientsError", services |-> svc]
    ELSE [err |-> "", services |-> svc]

\* A pre-run that leaves the validator in run-clients under no-validator.
ExcludeValidator_KeepsValidator(svc, noVal) == svc

\* Exclude validator from run-clients if no-validator flag is set
ExcludeValidator(svc, noVal) ==
    IF noVal /\ Contains(svc, validator) THEN FilterNot(svc, validator) ELSE svc

\* Prepare custom images: '<CLIENT>:<DOCKER_IMAGE>'
ClientName(flag) == IF flag # <<>> THEN Split(flag, ":")[1] ELSE flag

\* An image that is the second piece of the flag alone.
ClientImage_SecondPart(flag, image) ==
    IF flag # <<>>
    THEN IF Len(Split(flag, ":")) >= 2 THEN Split(flag, ":")[2] ELSE <<>>
    ELSE image

ClientImage(flag, image) ==
    IF flag # <<>> THEN Join(Tail(Split(flag, ":")), ":") ELSE image

\* fmt.Errorf(configs.UnknownNetworkError, network): the message names the network
UnknownNetworkError(n) == "UnknownNetworkError: " \o n

\* A pre-run that takes any network name.
PreRunError_NoNetworkCheck(netErr) ==
    IF netErr THEN "NetworkValidationFailedError"
    ELSE IF feeRecipient # <<>> /\ ~IsAddress(feeRecipient) THEN "InvalidFeeRecipientError"
    ELSE IF loggingFlag \notin ValidLoggingFlags THEN "InvalidLoggingFlag"
    ELSE ""

\* Pre-run without the validation of the fee recipient.
PreRunError_NoFeeCheck(netErr) ==
    IF netErr THEN "NetworkValidationFailedError"
    ELSE IF ~Contains(SupportedNetworks, network) THEN UnknownNetworkError(network)
    ELSE IF loggingFlag \notin ValidLoggingFlags THEN "InvalidLoggingFlag"
    ELSE ""

\* The error pre-run returns once run-clients is valid, "" when it returns nil.
PreRunError(netErr) ==
    IF netErr THEN "NetworkValidationFailedError"
    ELSE IF ~Contains(SupportedNetworks, network) THEN UnknownNetworkError(network)
    ELSE IF feeRecipient # <<>> /\ ~IsAddress(feeRecipient) THEN "InvalidFeeRecipientError"
    ELSE IF loggingFlag \notin ValidLoggingFlags THEN "InvalidLoggingFlag"
    ELSE ""

\* Whether pre-run reaches "Prepare custom images" before it returns.
ReachesImages(err) == err \in {"", "InvalidLoggingFlag"}

\* CliCmd.PreRun: preRunCliCmd, and log.Fatal on its error
PreRun ==
    /\ pc = "PreRun"
    /\ \E netErr \in BOOLEAN :
        LET rc  == ValidateRunClients(services)
            err == IF rc.err # "" THEN rc.err ELSE PreRunError(netErr)
        IN
        /\ install' = (install \/ y)
        /\ run' = (run \/ y)
        /\ services' = IF rc.err # "" THEN rc.services
                       ELSE ExcludeValidator(rc.services, noValidator)
        /\ IF rc.err = "" /\ ReachesImages(err)
           THEN /\ executionName' = ClientName(executionName)
                /\ executionImage' = ClientImage(executionName, executionImage)
                /\ consensusName' = ClientName(consensusName)
                /\ consensusImage' = ClientImage(consensusName, consensusImage)
                /\ validatorName' = ClientName(validatorName)
                /\ validatorImage' = ClientImage(validatorName, validatorImage)
           ELSE UNCHANGED <<executionName, executionImage, consensusName,
                            consensusImage, validatorName, validatorImage>>
        /\ IF err # ""
           THEN /\ errs' = <<err>>
                /\ exitCode' = 1
                /\ pc' = "Exit"
           ELSE /\ UNCHANGED <<errs, exitCode>>
                /\ pc' = "GetClients"
    /\ calls' = Append(calls, "preRunCliCmd")
    /\ UNCHANGED <<y, noValidator, noMev, network, feeRecipient, jwtPath, loggingFlag>>
    /\ UNCHANGED <<combinedClients, gd, machineVars, syncVars, probeVars>>
    /\ UNCHANGED pending

\* ------------------------------------------------------------------ runCliCmd

\* A step whose error is recorded while the run step goes on from where it is.
Fail_GoesOn(es) == errs' = es /\ exitCode' = exitCode /\ pc' = pc

\* A Run that ends normally although runCliCmd returned errors.
Fail_ExitsZero(es) == errs' = es /\ exitCode' = 0 /\ pc' = "Exit"

\* return []error{...} from runCliCmd: CliCmd.Run logs the errors and exits with 1
Fail(es) == errs' = es /\ exitCode' = 1 /\ pc' = "Exit"

\* return nil from runCliCmd: the process ends normally
Succeed == errs' = errs /\ exitCode' = 0 /\ pc' = "Exit"

\* a helper that ends the process itself, on the user's choice to exit
ExitByChoice == errs' = errs /\ exitCode' = 0 /\ pc' = "Exit"

\* The warnings of the run step, then c.Clients: supported + configured clients
GetClients ==
    /\ pc = "GetClients"
    /\ calls' = Append(calls, "Clients")
    /\ warnings' = IF executionImage # <<>> \/ consensusImage # <<>> \/ validatorImage # <<>>
                   THEN warnings \cup {"CustomImagesWarning"} ELSE warnings
    /\ \E nerr \in 0..2 :
          IF nerr = 0 THEN errs' = errs /\ exitCode' = exitCode /\ pc' = "validateClients"
          ELSE Fail([i \in 1..nerr |-> "ClientsError"])
    /\ UNCHANGED <<flagVars, combinedClients, gd, machineVars, probeVars>>
    /\ UNCHANGED <<syncState, elSynced, clSynced, ticks, lastQueried, lastError>>
    /\ UNCHANGED pending

\* Handle selection and validation of clients
ValidateClients ==
    /\ pc = "validateClients"
    /\ calls' = Append(calls, "validateClients")
    /\ \E e \in RoleChoices(network, execution, executionName),
          c \in RoleChoices(network, consensus, consensusName),
          compatible \in BOOLEAN :
          LET v == ValidatorChoice(c, validatorName)
              r == Resolve(network, e, c, v, noValidator, compatible)
          IN  /\ compatible \in CompatibleValues(c, v)
              /\ IF r.err # <<>>
                 THEN Fail(<<r.err[1]>>) /\ combinedClients' = combinedClients
                 ELSE /\ combinedClients' = <<[Execution |-> r.Execution,
                                              Consensus |-> r.Consensus,
                                              Validator |-> r.Validator]>>
                      /\ errs' = errs /\ exitCode' = exitCode
                      /\ pc' = "CheckDependencies"
    /\ UNCHANGED <<flagVars, gd, machineVars, syncVars, probeVars>>
    /\ UNCHANGED pending

\* The checks of the dependencies that reported one pending.
DepRounds == Count(calls, "installDependencies") + Count(calls, "installOrShowInstructions")

\* the results of utils.CheckDependencies: nothing pending, or a dependency
PendingValues == {<<>>, <<"docker">>}

\* A loop that is left whatever the check reported.
AfterCheck_IgnoresPending(p) == "JWT"

\* len(pending) > 0, and the branch on install: where a check leads
AfterCheck(p) ==
    IF Len(p) = 0 THEN "JWT"
    ELSE IF install THEN "installDependencies"
    ELSE "installOrShowInstructions"

\* The loop head: pending = utils.CheckDependencies(dependencies)
CheckDependencies ==
    /\ pc = "CheckDependencies"
    /\ calls' = Append(calls, "CheckDependencies")
    /\ \E p \in PendingValues :
          /\ p # <<>> => DepRounds < MaxDepRounds
          /\ pending' = p
          /\ pc' = AfterCheck(p)
    /\ UNCHANGED <<flagVars, errs, exitCode, combinedClients, gd, machineVars,
                   syncVars, probeVars>>

\* An install that is not followed by another check.
AfterInstall_NoRecheck == "JWT"

\* the loop: after an install step the dependencies are checked again
AfterInstall == "CheckDependencies"

\* Install dependencies directly
InstallDependencies ==
    /\ pc = "installDependencies"
    /\ calls' = Append(calls, "installDependencies")
    /\ \E ok \in BOOLEAN :
          IF ok
          THEN /\ depsInstalled' = depsInstalled + 1
               /\ errs' = errs /\ exitCode' = exitCode /\ pc' = AfterInstall
          ELSE Fail(<<"InstallDependenciesError">>) /\ depsInstalled' = depsInstalled
    /\ UNCHANGED <<flagVars, combinedClients, gd, jwtGenerated, envFile, composeFile,
                   containers, syncVars, probeVars>>
    /\ UNCHANGED pending

\* Let the user decide to see the instructions and exit or let the tool install
InstallOrShowInstructions ==
    /\ pc = "installOrShowInstructions"
    /\ calls' = Append(calls, "installOrShowInstructions")
    /\ \E choice \in {"install", "installError", "promptError", "exit"} :
          /\ depsInstalled' = IF choice = "install" THEN depsInstalled + 1 ELSE depsInstalled
          /\ IF choice = "install"
             THEN errs' = errs /\ exitCode' = exitCode /\ pc' = AfterInstall
             ELSE IF choice = "exit" THEN ExitByChoice
             ELSE Fail(<<IF choice = "promptError" THEN "PromptError"
                         ELSE "InstallDependenciesError">>)
    /\ UNCHANGED <<flagVars, combinedClients, gd, jwtGenerated, envFile, composeFile,
                   containers, syncVars, probeVars>>
    /\ UNCHANGED pending

\* where handleJWTSecret puts the secret it generates
GeneratedJwtPath == <<"/", "sedge-data", "/", "jwtsecret">>

\* A secret that is generated for every network when no path is given.
NeedsJwtSecret_AnyNetwork(path, n) == path = <<>>

\* jwtPath == "" && configs.NetworksConfigs[network].RequireJWT
NeedsJwtSecret(path, n) == path = <<>> /\ RequireJWT(n)

\* else if filepath.IsAbs(jwtPath): the condition under which filepath.Abs is applied
ResolvesJwtPath(path) == IsAbs(path)

\* filepath.Abs: a path that is absolute is cleaned; any other is joined to the
\* working directory first
WorkingDir == <<"/", "home">>

Abs(path) == IF IsAbs(path) THEN CleanAbs(path) ELSE CleanAbs(WorkingDir \o <<"/">> \o path)

\* A fee recipient that is asked for whatever the yes flag is.
NeedsFeePrompt_IgnoresYes == feeRecipient = <<>>

\* Get fee recipient: the prompt is used when yes is not set and no address given
NeedsFeePrompt == ~y /\ feeRecipient = <<>>

flagsButJwt == <<y, install, run, services, noValidator, noMev, network, feeRecipient,
                 loggingFlag, executionName, executionImage, consensusName,
                 consensusImage, validatorName, validatorImage>>

flagsButFee == <<y, install, run, services, noValidator, noMev, network, jwtPath,
                 loggingFlag, executionName, executionImage, consensusName,
                 consensusImage, validatorName, validatorImage>>

\* Generate JWT secret if necessary, else make the given path absolute
HandleJwt ==
    /\ pc = "JWT"
    /\ \/ /\ NeedsJwtSecret(jwtPath, network)
          /\ calls' = Append(calls, "handleJWTSecret")
          /\ \E ok \in BOOLEAN :
                IF ok
                THEN /\ jwtGenerated' = TRUE /\ jwtPath' = GeneratedJwtPath
                     /\ errs' = errs /\ exitCode' = exitCode
                     /\ pc' = IF NeedsFeePrompt THEN "feeRecipientPrompt" ELSE "GenerateScripts"
                ELSE Fail(<<"JWTSecretError">>) /\ UNCHANGED <<jwtGenerated, jwtPath>>
       \/ /\ ~NeedsJwtSecret(jwtPath, network)
          /\ ResolvesJwtPath(jwtPath)
          /\ calls' = Append(calls, "filepath.Abs")
          \* filepath.Abs of a path that is absolute is filepath.Clean of it, with
          \* no error: the return of the error is never taken
          /\ jwtPath' = Abs(jwtPath)
          /\ errs' = errs /\ exitCode' = exitCode
          /\ pc' = IF NeedsFeePrompt THEN "feeRecipientPrompt" ELSE "GenerateScripts"
          /\ UNCHANGED jwtGenerated
       \/ /\ ~NeedsJwtSecret(jwtPath, network)
          /\ ~ResolvesJwtPath(jwtPath)
          /\ pc' = IF NeedsFeePrompt THEN "feeRecipientPrompt" ELSE "GenerateScripts"
          /\ UNCHANGED <<calls, errs, exitCode, jwtGenerated, jwtPath>>
    /\ UNCHANGED <<flagsButJwt, combinedClients, gd, depsInstalled, envFile, composeFile,
                   containers, syncVars, probeVars>>
    /\ UNCHANGED pending

\* feeRecipientPrompt: an address, nothing, or an error of the prompt
FeeRecipientPrompt ==
    /\ pc = "feeRecipientPrompt"
    /\ calls' = Append(calls, "feeRecipientPrompt")
    /\ \E answer \in {<<"error">>, <<>>, ValidAddress} :
          IF answer = <<"error">>
          THEN Fail(<<"PromptError">>) /\ feeRecipient' = feeRecipient
          ELSE /\ feeRecipient' = answer
               /\ errs' = errs /\ exitCode' = exitCode /\ pc' = "GenerateScripts"
    /\ UNCHANGED <<flagsButFee, combinedClients, gd, machineVars, syncVars, probeVars>>
    /\ UNCHANGED pending

\* ------------------------------------------------- generation and cleanup

\* Mev-boost that follows the no-mev-boost flag alone.
MevEnabled_IgnoresNoValidator(noMevFlag, noValidatorFlag) == ~noMevFlag

\* Mev: !noMev && !noValidator
MevEnabled(noMevFlag, noValidatorFlag) == ~noMevFlag /\ ~noValidatorFlag

\* configs.GetLoggingDriver(loggingFlag)
GetLoggingDriver(flag) == IF flag = "none" THEN "" ELSE flag

\* combinedClients with the images and the omission of the validator set
WithImages(cc) ==
    [Execution |-> [cc.Execution EXCEPT !.image = executionImage],
     Consensus |-> [cc.Consensus EXCEPT !.image = consensusImage],
     Validator |-> [cc.Validator EXCEPT !.image = validatorImage, !.omitted = noValidator]]

\* gd := generate.GenerationData{...}; a field the command does not set is empty
GenerationData(cc) ==
    [ExecutionClient |-> cc.Execution,
     ConsensusClient |-> cc.Consensus,
     ValidatorClient |-> cc.Validator,
     Network         |-> network,
     FeeRecipient    |-> feeRecipient,
     JWTSecretPath   |-> jwtPath,
     Mev             |-> MevEnabled(noMev, noValidator),
     RelayURL        |-> <<>>,
     LoggingDriver   |-> GetLoggingDriver(loggingFlag)]

\* The files left by a generation that failed while writing: none.
FilesAfterFailedWrite(written) == {}

\* The files left by a cleanup pass that failed: none.
FilesAfterFailedClean(written) == {}

\* the document of a file that is kept, nothing for a file that is not
Kept(name, doc, files) == IF name \in files THEN <<doc>> ELSE <<>>

\* generate.GenerateScripts(gd): writes the environment document, then the
\* manifest; a failed write leaves no file
GenerateScripts ==
    /\ pc = "GenerateScripts"
    /\ calls' = Append(calls, "GenerateScripts")
    /\ LET cc == WithImages(combinedClients[1])
           g  == GenerationData(cc)
       IN  /\ combinedClients' = <<cc>>
           /\ gd' = <<g>>
           /\ \E outcome \in {"ok", "MissingTemplateError", "envWriteError", "manifestWriteError"} :
                 IF outcome = "ok"
                 THEN /\ envFile' = <<EnvDocument(g)>>
                      /\ composeFile' = <<ComposeDocument(g)>>
                      /\ errs' = errs /\ exitCode' = exitCode
                      /\ pc' = "CleanGenerated"
                 ELSE /\ Fail(<<outcome>>)
                      /\ LET written == IF outcome = "manifestWriteError" THEN {"env", "compose"}
                                        ELSE IF outcome = "envWriteError" THEN {"env"}
                                        ELSE {}
                             left == FilesAfterFailedWrite(written)
                         IN  /\ envFile' = Kept("env", EnvDocument(g), left)
                             /\ composeFile' = Kept("compose", ComposeDocument(g), left)
    /\ UNCHANGED <<flagVars, depsInstalled, jwtGenerated, containers, syncVars, probeVars>>
    /\ UNCHANGED pending

\* generate.CleanGenerated(results): the cleanup pass on both files
CleanGenerated ==
    /\ pc = "CleanGenerated"
    /\ calls' = Append(calls, "CleanGenerated")
    /\ \E ok \in BOOLEAN :
          IF ok
          THEN /\ envFile' = <<CleanDoc(envFile[1])>>
               /\ composeFile' = <<CleanDoc(composeFile[1])>>
               /\ errs' = errs /\ exitCode' = exitCode
               /\ pc' = "PrintFiles"
          ELSE /\ Fail(<<"CleanError">>)
               /\ LET left == FilesAfterFailedClean({"env", "compose"})
                  IN  /\ envFile' = Kept("env", envFile[1], left)
                      /\ composeFile' = Kept("compose", composeFile[1], left)
    /\ UNCHANGED <<flagVars, combinedClients, gd, depsInstalled, jwtGenerated,
                   containers, syncVars, probeVars>>
    /\ UNCHANGED pending

\* ------------------------------------------------------- running the setup

\* A command that goes on to run with an empty list of services.
NothingToRun_Never(svc) == FALSE

\* If --run-clients=none was set then exit and don't run anything
NothingToRun(svc) == Len(svc) = 0

\* Print final files, the environment file and then the manifest, then leave if
\* there is nothing to run
PrintFiles ==
    /\ pc = "PrintFiles"
    /\ calls' = calls \o <<"PrintFileContent", "PrintFileContent">>
    /\ IF NothingToRun(services) THEN Succeed
       ELSE /\ errs' = errs /\ exitCode' = exitCode
            /\ pc' = IF combinedClients[1].Consensus.name = <<"teku">>
                     THEN "preRunTeku" ELSE "RunServices"
    /\ UNCHANGED <<flagVars, combinedClients, gd, machineVars, syncVars, probeVars>>
    /\ UNCHANGED pending

\* If teku is chosen, then prepare datadir with 777 permissions
PreRunTeku ==
    /\ pc = "preRunTeku"
    /\ calls' = Append(calls, "preRunTeku")
    /\ \E ok \in BOOLEAN :
          IF ok THEN errs' = errs /\ exitCode' = exitCode /\ pc' = "RunServices"
          ELSE Fail(<<"TekuDatadirError">>)
    /\ UNCHANGED <<flagVars, combinedClients, gd, machineVars, syncVars, probeVars>>
    /\ UNCHANGED pending

\* A validator that is started without waiting for the sync.
AfterRun_SkipsSync ==
    IF ~noValidator /\ ~Contains(services, validator) THEN "RunValidator" ELSE "Return"

\* Run validator after execution and consensus clients are synced, unless the
\* validator runs already: where the command goes once the services run
AfterRun ==
    IF ~noValidator /\ ~Contains(services, validator) THEN "trackSync" ELSE "Return"

Range(list) == {list[i] : i \in 1..Len(list)}

\* if run: runAndShowContainers(*services); else: runScriptOrExit()
RunServices ==
    /\ pc = "RunServices"
    /\ \/ /\ run
          /\ calls' = Append(calls, "runAndShowContainers")
          /\ \E ok \in BOOLEAN :
                IF ok
                THEN /\ containers' = containers \cup Range(services)
                     /\ errs' = errs /\ exitCode' = exitCode /\ pc' = AfterRun
                ELSE Fail(<<"RunContainersError">>) /\ containers' = containers
       \/ /\ ~run
          /\ calls' = Append(calls, "runScriptOrExit")
          /\ \E choice \in {"run", "runError", "promptError", "exit"} :
                /\ containers' = IF choice = "run" THEN containers \cup Range(services)
                                 ELSE containers
                /\ IF choice = "run"
                   THEN errs' = errs /\ exitCode' = exitCode /\ pc' = AfterRun
                   ELSE IF choice = "exit" THEN ExitByChoice
                   ELSE Fail(<<IF choice = "promptError" THEN "PromptError"
                               ELSE "RunContainersError">>)
    /\ UNCHANGED <<flagVars, combinedClients, gd, depsInstalled, jwtGenerated, envFile,
                   composeFile, syncVars, probeVars>>
    /\ UNCHANGED pending

\* return nil at the end of runCliCmd
Return ==
    /\ pc = "Return"
    /\ Succeed
    /\ UNCHANGED <<flagVars, calls, combinedClients, gd, machineVars, syncVars, probeVars>>
    /\ UNCHANGED pending

\* ------------------------------------------------- Sync Tracker (spec.md 4.4)

QueryResults == {"synced", "syncing", "failed"}

\* the endpoints a tick queries: those that have not reported synced yet
ToQuery == (IF elSynced THEN {} ELSE {execution}) \cup (IF clSynced THEN {} ELSE {consensus})

\* The state after a tick that left the flags el, cl, at tick number t.
AfterTick(el, cl, t) ==
    IF el /\ cl THEN "synced"
    ELSE IF t >= MaxTicks THEN "timed-out"
    ELSE "polling"

\* The state after a tick with the results elRes, clRes: a query failure is
\* recorded but does not itself terminate the loop, only the deadline does.
AfterQueries(elRes, clRes, el, cl, t) == AfterTick(el, cl, t)

\* The error trackSync returns for a terminal state of the tracker: none but
\* for errored; a timeout is a warning.
TrackSyncError(state) == IF state = "errored" THEN "TrackSyncError" ELSE ""

\* A return that aborts on every result but an error.
AbortsOnSyncError_Inverted(err) == err = ""

\* if err = trackSync(...); err != nil { return []error{err} }
AbortsOnSyncError(err) == err # ""

\* what runCliCmd does with the result of trackSync
SyncReturns(state) ==
    IF AbortsOnSyncError(TrackSyncError(state))
    THEN Fail(<<"TrackSyncError">>)
    ELSE errs' = errs /\ exitCode' = exitCode /\ pc' = "RunValidator"

\* trackSync(monitor, results.ELPort, results.CLPort, time.Minute*5) is called
TrackSyncStart ==
    /\ pc = "trackSync"
    /\ calls' = Append(calls, "trackSync")
    /\ syncState' = "polling"
    /\ pc' = "Polling"
    /\ UNCHANGED <<flagVars, errs, exitCode, combinedClients, gd, machineVars, probeVars>>
    /\ UNCHANGED <<elSynced, clSynced, ticks, lastQueried, lastError, warnings>>
    /\ UNCHANGED pending

\* polling -> polling | synced | timed-out: one tick queries the endpoints that
\* are not synced yet; a failed query is recorded and ends nothing
SyncTick ==
    /\ pc = "Polling" /\ syncState = "polling"
    /\ \E elRes \in QueryResults, clRes \in QueryResults :
          \* the result of an endpoint that is not queried plays no part
          /\ elSynced => elRes = "synced"
          /\ clSynced => clRes = "synced"
          /\ LET el == elSynced \/ elRes = "synced"
                 cl == clSynced \/ clRes = "synced"
                 st == AfterQueries(elRes, clRes, el, cl, ticks + 1)
             IN  /\ elSynced' = el /\ clSynced' = cl
                 /\ ticks' = ticks + 1
                 /\ lastQueried' = ToQuery
                 /\ lastError' = IF "failed" \in {elRes, clRes} THEN "QueryFailed" ELSE lastError
                 /\ syncState' = st
                 /\ warnings' = IF st = "timed-out" THEN warnings \cup {"SyncTimeoutWarning"}
                                ELSE warnings
                 /\ IF st = "polling" THEN UNCHANGED <<errs, exitCode, pc>>
                    ELSE SyncReturns(st)
    /\ UNCHANGED <<flagVars, calls, combinedClients, gd, machineVars, probeVars>>
    /\ UNCHANGED pending

\* polling -> errored: a non-recoverable condition, such as a malformed
\* endpoint configuration, found when tracking starts
SyncErrored ==
    /\ pc = "Polling" /\ syncState = "polling" /\ ticks = 0
    /\ syncState' = "errored"
    /\ lastError' = "MalformedEndpoint"
    /\ SyncReturns("errored")
    /\ UNCHANGED <<flagVars, calls, combinedClients, gd, machineVars, probeVars>>
    /\ UNCHANGED <<elSynced, clSynced, ticks, lastQueried, warnings>>
    /\ UNCHANGED pending

\* if run: runAndShowContainers([]string{validator}); else: RunValidatorOrExit()
RunValidator ==
    /\ pc = "RunValidator"
    /\ \/ /\ run
          /\ calls' = Append(calls, "runAndShowContainers(validator)")
          /\ \E ok \in BOOLEAN :
                IF ok
                THEN /\ containers' = containers \cup {validator}
                     /\ errs' = errs /\ exitCode' = exitCode /\ pc' = "Return"
                ELSE Fail(<<"RunContainersError">>) /\ containers' = containers
       \/ /\ ~run
          /\ calls' = Append(calls, "RunValidatorOrExit")
          /\ \E choice \in {"run", "runError", "promptError", "exit"} :
                /\ containers' = IF choice = "run" THEN containers \cup {validator}
                                 ELSE containers
                /\ IF choice = "run"
                   THEN errs' = errs /\ exitCode' = exitCode /\ pc' = "Return"
                   ELSE IF choice = "exit" THEN ExitByChoice
                   ELSE Fail(<<IF choice = "promptError" THEN "PromptError"
                               ELSE "RunContainersError">>)
    /\ UNCHANGED <<flagVars, combinedClients, gd, depsInstalled, jwtGenerated, envFile,
                   composeFile, syncVars, probeVars>>
    /\ UNCHANGED pending

Next ==
    \/ PreRun
    \/ GetClients
    \/ ValidateClients
    \/ CheckDependencies
    \/ InstallDependencies
    \/ InstallOrShowInstructions
    \/ HandleJwt
    \/ FeeRecipientPrompt
    \/ GenerateScripts
    \/ CleanGenerated
    \/ PrintFiles
    \/ PreRunTeku
    \/ RunServices
    \/ TrackSyncStart
    \/ SyncTick
    \/ SyncErrored
    \/ RunValidator
    \/ Return

Spec == Init /\ [][Next]_vars

\* The command on every value of the jwt-secret-path flag, for a network that
\* requires a JWT and one that does not; probeIn keeps the path as it was given.
InitJwt ==
    /\ y \in BOOLEAN /\ install \in BOOLEAN /\ run \in BOOLEAN
    /\ services = <<execution, consensus>>
    /\ noValidator = FALSE /\ noMev = FALSE
    /\ network \in {"sepolia", "premerge"}
    /\ feeRecipient = <<>> /\ jwtPath \in JwtPathValues /\ loggingFlag = "json"
    /\ executionName = <<>> /\ consensusName = <<>> /\ validatorName = <<>>
    /\ pc = "PreRun"
    /\ probeIn = jwtPath /\ probeOut = <<>>
    /\ InitRest

SpecJwt == InitJwt /\ [][Next]_vars

\* ------------------------------------------------ the client flags as given

\* the pieces of an execution flag: a client, the colon, a piece of an image
FlagPieces == {"geth", ":", "img"}

\* every flag of a length up to n
RECURSIVE FlagsUpTo(_)
FlagsUpTo(n) ==
    IF n = 0 THEN {<<>>}
    ELSE LET shorter == FlagsUpTo(n - 1)
         IN  shorter \cup {Append(f, t) : f \in {x \in shorter : Len(x) = n - 1}, t \in FlagPieces}

ConsensusFlagValues == {<<>>, <<"teku", ":", "repo/teku", ":", "v1">>}

ValidatorFlagValues == {<<>>, <<"teku">>, <<"prysm", ":", "repo/prysm">>}

\* The command on every execution flag of a length up to MaxFlagLen; probeIn
\* keeps the three client flags as given.
InitImages ==
    /\ y \in BOOLEAN /\ install = FALSE /\ run = FALSE
    /\ services = <<execution, consensus>>
    /\ noValidator = FALSE /\ noMev = FALSE
    /\ network \in {"sepolia", "premerge"}
    /\ feeRecipient = <<>> /\ jwtPath \in {<<>>, <<"/", "jwt">>} /\ loggingFlag = "json"
    /\ executionName \in FlagsUpTo(MaxFlagLen)
    /\ consensusName \in ConsensusFlagValues
    /\ validatorName \in ValidatorFlagValues
    /\ pc = "PreRun"
    /\ probeIn = <<executionName, consensusName, validatorName>> /\ probeOut = <<>>
    /\ InitRest

SpecImages == InitImages /\ [][Next]_vars

\* ------------------------------------- specifications of single operations

\* the flags as cobra leaves them when none is given (cli.go, init)
DefaultFlags ==
    /\ y = FALSE /\ install = FALSE /\ run = FALSE
    /\ services = <<execution, consensus>>
    /\ noValidator = FALSE /\ noMev = FALSE
    /\ network = "mainnet"
    /\ feeRecipient = <<>> /\ jwtPath = <<>> /\ loggingFlag = "json"
    /\ executionName = <<>> /\ consensusName = <<>> /\ validatorName = <<>>

\* Pre-run on every run-clients list of a length up to MaxServices; probeIn
\* keeps the list as given.
InitPreRun ==
    /\ y = FALSE /\ install = FALSE /\ run = FALSE
    /\ services \in ListsUpTo(MaxServices)
    /\ probeIn = services /\ probeOut = <<>>
    /\ noValidator \in BOOLEAN /\ noMev = FALSE
    /\ network \in NetworkValues
    /\ feeRecipient = <<>> /\ jwtPath = <<>> /\ loggingFlag = "json"
    /\ executionName = <<>> /\ consensusName = <<>> /\ validatorName = <<>>
    /\ pc = "PreRun"
    /\ InitRest

SpecPreRun == InitPreRun /\ [][PreRun]_vars

\* the lines of the documents the cleanup pass is applied to: a blank line, an
\* assignment with no value, two with a value, a comment
CleanLines == {<<>>, <<"A", "=">>, <<"A", "=", "1">>, <<"A", "=", "B", "=">>, <<"#">>}

RECURSIVE DocsUpTo(_)
DocsUpTo(n) ==
    IF n = 0 THEN {<<>>}
    ELSE LET shorter == DocsUpTo(n - 1)
         IN  shorter \cup {Append(d, l) : d \in {x \in shorter : Len(x) = n - 1}, l \in CleanLines}

InitClean ==
    /\ DefaultFlags /\ InitRest
    /\ pc = "Clean"
    /\ probeIn \in DocsUpTo(MaxDocLen)
    /\ probeOut = <<>>

\* one more pass over the result of the last one
CleanPass ==
    /\ pc = "Clean"
    /\ Len(probeOut) < 2
    /\ probeOut' = Append(probeOut, CleanDoc(IF probeOut = <<>> THEN probeIn
                                             ELSE probeOut[Len(probeOut)]))
    /\ UNCHANGED <<flagVars, pc, errs, exitCode, calls, combinedClients, gd,
                   machineVars, syncVars, probeIn>>
    /\ UNCHANGED pending

SpecClean == InitClean /\ [][CleanPass]_vars

\* the relay lists given to the composer: none, one relay, two relays
RelayURLValues ==
    {<<>>, <<"https://user-a">>, <<"https://user-b", ",", "https://user-a">>}

\* the generation data the composer is applied to; Mev is never set with the
\* validator omitted (cli.go, Mev: !noMev && !noValidator)
ComposeInputs ==
    {g \in [ExecutionClient : {ClientSpec(execution, <<"geth">>)},
            ConsensusClient : {ClientSpec(consensus, <<"prysm">>), ClientSpec(consensus, <<"teku">>)},
            ValidatorClient : {[ClientSpec(validator, <<"teku">>) EXCEPT !.omitted = o] : o \in BOOLEAN},
            Network         : {"goerli", "sepolia", "premerge"},
            FeeRecipient    : {<<>>, ValidAddress},
            JWTSecretPath   : {<<>>, <<"/", "jwt">>, <<"jwt">>},
            Mev             : BOOLEAN,
            RelayURL        : RelayURLValues,
            LoggingDriver   : {"json"}] :
        g.Mev => ~g.ValidatorClient.omitted}

InitCompose ==
    /\ DefaultFlags /\ InitRest
    /\ pc = "Compose"
    /\ probeIn \in ComposeInputs
    /\ probeOut = <<>>

\* the templates executed on the generation data: the two documents
ComposeStep ==
    /\ pc = "Compose"
    /\ probeOut' = <<[env |-> EnvDocument(probeIn), manifest |-> ComposeDocument(probeIn)]>>
    /\ pc' = "Exit"
    /\ UNCHANGED <<flagVars, errs, exitCode, calls, combinedClients, gd, machineVars,
                   syncVars, probeIn>>
    /\ UNCHANGED pending

SpecCompose == InitCompose /\ [][ComposeStep]_vars

\* ------------------------------------------------------------------ claims

Roles == {execution, consensus, validator}

\* the position of the first call of a name
Pos(name) == FirstIndex(calls, name)

LastCall == IF calls = <<>> THEN "" ELSE calls[Len(calls)]

\* a line KEY=... of an environment document
HasKey(doc, key) == \E i \in 1..Len(doc) : Len(doc[i]) >= 2 /\ doc[i][1] = key /\ doc[i][2] = "="

NoFileOnDisk == envFile = <<>> /\ composeFile = <<>>

NoSideEffect == depsInstalled = 0 /\ ~jwtGenerated /\ NoFileOnDisk

Failed == pc = "Exit" /\ errs # <<>>

\* C1: whenever generation is invoked with the validator omitted, Mev is false
\* in the generation data whatever no-mev-boost is, and the environment file
\* holds no RELAY_URL; an environment file holds RELAY_URL only under Mev.
C1_NoValidatorDisablesMev ==
    /\ (gd # <<>> /\ noValidator) =>
          /\ ~gd[1].Mev
          /\ envFile # <<>> => ~HasKey(envFile[1], "RELAY_URL")
    /\ (envFile # <<>> /\ HasKey(envFile[1], "RELAY_URL")) => gd[1].Mev

C1_Witness ==
    /\ noValidator /\ ~noMev /\ pc = "Exit" /\ errs = <<>>
    /\ envFile # <<>> /\ HasKey(envFile[1], "NETWORK")

PreRunConfigErrors ==
    {"RunClientsFlagAmbiguousError", "RunClientsError", "InvalidFeeRecipientError",
     "InvalidLoggingFlag"} \cup {UnknownNetworkError(n) : n \in NetworkValues}

ResolutionErrors == {"UnsupportedNetworkError", "UnsupportedClientError", "IncompatiblePairError"}

\* the error of filepath.Abs on the JWT path (cli.go, the return after it)
JwtPathErrors == {"JWTPathError"}

RunClientsValid(l) ==
    \/ l = <<"all">>
    \/ l = <<"none">>
    \/ \A i \in 1..Len(l) : l[i] \in Roles

\* a 20-byte address in hexadecimal, as the claim means it
WellFormedAddress(a) ==
    /\ Len(a) = 2 * AddressBytes + 1
    /\ a[1] = "0x"
    /\ \A i \in 2..Len(a) : a[i] \in {"a", "0"}

\* a flag the command rejects: run-clients, the network, the fee recipient or
\* the logging driver, as they were given
FaultyFlags ==
    \/ ~RunClientsValid(probeIn)
    \/ ~Contains(SupportedNetworks, network)
    \/ feeRecipient # <<>> /\ ~WellFormedAddress(feeRecipient)
    \/ loggingFlag \notin ValidLoggingFlags

\* C2: every execution that ends with a configuration error (the errors of
\* pre-run, of client resolution and of the JWT path) has installed no
\* dependency, generated no secret and written no file; and a command given a
\* flag that pre-run rejects ends in pre-run, with one of its errors and no side
\* effect.
C2_ConfigErrorsBeforeSideEffects ==
    /\ (Failed /\ errs[1] \in PreRunConfigErrors \cup ResolutionErrors \cup JwtPathErrors)
          => NoSideEffect
    /\ FaultyFlags => NoSideEffect
    /\ (FaultyFlags /\ pc # "PreRun") =>
          /\ Failed /\ calls = <<"preRunCliCmd">>
          /\ errs[1] \in PreRunConfigErrors \cup {"NetworkValidationFailedError"}

C2_Witness ==
    /\ Failed /\ errs = <<"UnsupportedClientError">> /\ LastCall = "validateClients"
    /\ ~FaultyFlags /\ NoSideEffect

\* C4: a sync timeout is a warning: the tracker timed out at the deadline with an
\* endpoint not synced, the command records no error for it and goes on to the
\* validator start, the services stay up and the files stay on disk; a later
\* failure can only come from the validator start.
C4_SyncTimeoutNonFatal ==
    syncState = "timed-out" =>
        /\ ~(elSynced /\ clSynced) /\ ticks = MaxTicks
        /\ "SyncTimeoutWarning" \in warnings
        /\ ~Contains(errs, "TrackSyncError")
        /\ pc \in {"RunValidator", "Return", "Exit"}
        /\ pc = "RunValidator" => errs = <<>> /\ exitCode = -1
        /\ exitCode = 1 => LastCall \in {"runAndShowContainers(validator)", "RunValidatorOrExit"}
        /\ Range(services) \subseteq containers
        /\ envFile # <<>> /\ composeFile # <<>>

C4_Witness ==
    /\ syncState = "timed-out" /\ pc = "Exit" /\ exitCode = 0 /\ errs = <<>>
    /\ validator \in containers /\ ~elSynced

ValidatorStartCalls == {"runAndShowContainers(validator)", "RunValidatorOrExit"}

RunCalls == {"runAndShowContainers", "runScriptOrExit"}

\* C5: sync tracking starts only once the run step has started the services
\* (validator not omitted and not among them); the validator start comes only
\* after sync tracking has returned without error; after an error of sync
\* tracking the validator is never started.
C5_ValidatorAfterSync ==
    /\ Contains(calls, "trackSync") =>
          /\ ~noValidator /\ ~Contains(services, validator)
          /\ services # <<>> /\ Range(services) \subseteq containers
          /\ \E c \in RunCalls : Contains(calls, c) /\ Pos(c) < Pos("trackSync")
    /\ (pc = "RunValidator" \/ \E c \in ValidatorStartCalls : Contains(calls, c)) =>
          /\ syncState \in {"synced", "timed-out"}
          /\ Contains(calls, "trackSync")
          /\ \A c \in ValidatorStartCalls : Contains(calls, c) => Pos("trackSync") < Pos(c)
    /\ syncState = "errored" =>
          /\ validator \notin containers
          /\ \A c \in ValidatorStartCalls : ~Contains(calls, c)
          /\ Failed
    /\ (validator \in containers /\ ~Contains(services, validator)) =>
          syncState \in {"synced", "timed-out"}

C5_Witness ==
    /\ validator \in containers /\ ~Contains(services, validator)
    /\ syncState = "synced" /\ pc = "Exit" /\ ~noValidator

DepCalls == {"CheckDependencies", "installDependencies", "installOrShowInstructions"}

\* C6 as claimed: the polling of the Sync Tracker is the only repetition: no
\* call of the command is made twice in an execution, but for the printing,
\* which is one call for each of the two files.
C6_Original ==
    /\ \A c \in Range(calls) \ {"PrintFileContent"} : Count(calls, c) <= 1
    /\ Count(calls, "PrintFileContent") \in {0, 2}

\* C6 as amended: the dependency check is repeated too, once more after every
\* install step and with no bound of its own; every other call is made at most
\* once (the printing once for each of the two files), the polling ends at the
\* deadline, and a command that has not ended can always take its next step.
C6_OnlyDepsAndSyncRepeat ==
    /\ \A c \in Range(calls) \ (DepCalls \cup {"PrintFileContent"}) : Count(calls, c) <= 1
    /\ Count(calls, "PrintFileContent") \in {0, 2}
    /\ ticks <= MaxTicks
    /\ Count(calls, "CheckDependencies") <= DepRounds + 1
    /\ Contains(calls, "GenerateScripts") => Count(calls, "CheckDependencies") = DepRounds + 1
    /\ pc # "Exit" => ENABLED Next

C6_Witness ==
    /\ Count(calls, "CheckDependencies") >= 2 /\ ticks = MaxTicks
    /\ pc = "Exit" /\ exitCode = 0

\* C7: a JWT secret path given by the user reaches script generation only as an
\* absolute path.
C7_UserJwtPathAbsolute ==
    (gd # <<>> /\ ~jwtGenerated /\ gd[1].JWTSecretPath # <<>>) => IsAbs(gd[1].JWTSecretPath)

NoConsecutiveBlanks(doc) == \A i \in 1..(Len(doc) - 1) : ~(doc[i] = <<>> /\ doc[i+1] = <<>>)

\* C9: the cleanup pass leaves no line KEY= and no two blank lines in a row, and
\* a second pass over its result changes nothing.
C9_CleanIdempotent ==
    /\ Len(probeOut) >= 1 =>
          /\ \A i \in 1..Len(probeOut[1]) : ~IsEmptyAssign(probeOut[1][i])
          /\ NoConsecutiveBlanks(probeOut[1])
    /\ Len(probeOut) = 2 => probeOut[2] = probeOut[1]

C9_Witness ==
    /\ probeIn = << <<>>, <<"A", "=">>, <<>>, <<"A", "=", "1">> >>
    /\ Len(probeOut) = 2
    /\ probeOut[1] = << <<>>, <<"A", "=", "1">> >>

RunClientsRejected ==
    errs # <<>> /\ errs[1] \in {"RunClientsFlagAmbiguousError", "RunClientsError"}

\* C10: pre-run accepts run-clients exactly when it is 'all' alone, 'none' alone
\* or a list of execution, consensus and validator only; 'all' or 'none' with any
\* other entry is rejected as ambiguous; after a successful pre-run the list holds
\* only the three roles ('all' gives the three, less the validator under
\* no-validator; 'none' gives the empty list).
C10_RunClientsValidation ==
    pc # "PreRun" =>
        /\ RunClientsRejected <=> ~RunClientsValid(probeIn)
        /\ ((Contains(probeIn, "all") \/ Contains(probeIn, "none")) /\ Len(probeIn) > 1)
              => errs = <<"RunClientsFlagAmbiguousError">>
        /\ pc = "GetClients" =>
              /\ Range(services) \subseteq Roles
              /\ probeIn = <<"all">> =>
                    services = IF noValidator THEN <<execution, consensus>>
                               ELSE <<execution, consensus, validator>>
              /\ probeIn = <<"none">> => services = <<>>
              /\ (probeIn # <<"all">> /\ probeIn # <<"none">>) =>
                    services = IF noValidator THEN SelectSeq(probeIn, LAMBDA x : x # validator)
                               ELSE probeIn

C10_Witness ==
    /\ probeIn = <<"all", "all">> /\ pc = "Exit"
    /\ errs = <<"RunClientsFlagAmbiguousError">>

PromptCalls ==
    {"feeRecipientPrompt", "installOrShowInstructions", "runScriptOrExit", "RunValidatorOrExit"}

\* C11: under no-validator the validator service is never started: once pre-run
\* has accepted run-clients the list holds no validator (also when 'all' was
\* given), no container of the validator runs, and neither sync tracking nor a
\* validator start or validator prompt is ever called.
C11_NoValidatorNeverStarted ==
    noValidator =>
        /\ (pc # "PreRun" /\ ~RunClientsRejected) => ~Contains(services, validator)
        /\ (pc # "PreRun" /\ ~RunClientsRejected /\ probeIn = <<"all">>)
              => services = <<execution, consensus>>
        /\ validator \notin containers
        /\ ~Contains(calls, "trackSync")
        /\ \A c \in ValidatorStartCalls : ~Contains(calls, c)
        /\ pc \notin {"trackSync", "Polling", "RunValidator"}

C11_Witness ==
    /\ noValidator /\ probeIn = <<"all">>
    /\ pc = "Exit" /\ exitCode = 0
    /\ containers = {execution, consensus}

\* C12: when the list of services is empty after pre-run, the run step ends
\* with success right after the two files are generated, cleaned and printed:
\* no Teku pre-run, no container start, no run prompt, no sync tracking and no
\* validator start is ever made, whatever run, yes and no-validator are.
C12_NothingToRun ==
    (pc # "PreRun" /\ services = <<>> /\ ~RunClientsRejected) =>
        /\ containers = {}
        /\ \A c \in RunCalls \cup ValidatorStartCalls \cup {"preRunTeku", "trackSync"} :
              ~Contains(calls, c)
        /\ pc \notin {"preRunTeku", "RunServices", "trackSync", "Polling", "RunValidator", "Return"}
        /\ Contains(calls, "PrintFileContent") =>
              /\ pc = "Exit" /\ exitCode = 0 /\ errs = <<>>
              /\ LastCall = "PrintFileContent"
              /\ envFile # <<>> /\ composeFile # <<>>
              /\ Pos("GenerateScripts") < Pos("CleanGenerated")
              /\ Pos("CleanGenerated") < Pos("PrintFileContent")

C12_Witness ==
    /\ probeIn = <<validator>> /\ noValidator /\ run /\ services = <<>>
    /\ combinedClients # <<>> /\ combinedClients[1].Consensus.name = <<"teku">>
    /\ pc = "Exit" /\ exitCode = 0 /\ LastCall = "PrintFileContent"

\* C13: with yes set, pre-run leaves install and run true, and no execution calls
\* the fee-recipient prompt, the install-or-show-instructions prompt, the
\* run-script-or-exit prompt or the run-validator-or-exit prompt.
C13_YesRunsWithoutPrompts ==
    y =>
        /\ pc # "PreRun" => install /\ run
        /\ \A c \in PromptCalls : ~Contains(calls, c)
        /\ pc \notin {"feeRecipientPrompt", "installOrShowInstructions"}

C13_Witness ==
    /\ y /\ feeRecipient = <<>> /\ depsInstalled > 0
    /\ validator \in containers /\ ~Contains(services, validator)
    /\ pc = "Exit" /\ exitCode = 0

\* C14 as claimed: for a network that is not in the list of supported networks,
\* pre-run fails with the unknown-network error that names the network.
C14_Original ==
    (pc # "PreRun" /\ ~Contains(SupportedNetworks, network))
        => errs = <<UnknownNetworkError(network)>>

\* C14 as amended: for a network that is not in the list, pre-run always fails,
\* so that clients are never resolved and nothing is generated; the error is the
\* unknown-network error naming the network when run-clients is valid and the
\* list of networks could be read, and the error of that earlier check otherwise.
\* No supported network gets the unknown-network error.
C14_UnknownNetworkRejected ==
    /\ (pc # "PreRun" /\ ~Contains(SupportedNetworks, network)) =>
          /\ Failed /\ Len(errs) = 1 /\ exitCode = 1
          /\ calls = <<"preRunCliCmd">>
          /\ combinedClients = <<>> /\ gd = <<>> /\ NoSideEffect
          /\ errs[1] \in {"RunClientsFlagAmbiguousError", "RunClientsError",
                          "NetworkValidationFailedError", UnknownNetworkError(network)}
          /\ RunClientsRejected <=> ~RunClientsValid(probeIn)
          /\ (RunClientsValid(probeIn) /\ errs[1] # "NetworkValidationFailedError")
                => errs = <<UnknownNetworkError(network)>>
    /\ (errs # <<>> /\ errs[1] \in {UnknownNetworkError(n) : n \in NetworkValues}) =>
          /\ ~Contains(SupportedNetworks, network)
          /\ errs[1] = UnknownNetworkError(network)

C14_Witness ==
    /\ network = UnknownNetwork /\ pc = "Exit"
    /\ errs = <<"UnknownNetworkError: unknownnet">>
    /\ feeRecipient = ShortAddress /\ calls = <<"preRunCliCmd">>

\* C15 as claimed: for every fee recipient that is given and is not a valid
\* address, pre-run fails with InvalidFeeRecipientError, generation is never
\* invoked and no file is on disk.
C15_Original ==
    (pc # "PreRun" /\ feeRecipient # <<>> /\ ~WellFormedAddress(feeRecipient)) =>
        /\ Failed /\ errs = <<"InvalidFeeRecipientError">>
        /\ gd = <<>> /\ NoFileOnDisk

\* C15 as amended: for every fee recipient that is given and is not a valid
\* address, pre-run fails, generation is never invoked and no file is on disk;
\* the error is InvalidFeeRecipientError whenever the checks pre-run makes before
\* it (run-clients, network) pass, and the error of the earlier check otherwise;
\* only a malformed address gets InvalidFeeRecipientError.
C15_MalformedFeeRecipientRejected ==
    /\ (pc # "PreRun" /\ feeRecipient # <<>> /\ ~WellFormedAddress(feeRecipient)) =>
          /\ Failed /\ exitCode = 1
          /\ calls = <<"preRunCliCmd">>
          /\ gd = <<>> /\ NoFileOnDisk
          /\ (/\ RunClientsValid(probeIn) /\ Contains(SupportedNetworks, network)
              /\ errs[1] # "NetworkValidationFailedError")
                => errs = <<"InvalidFeeRecipientError">>
    /\ Contains(errs, "InvalidFeeRecipientError") =>
          feeRecipient # <<>> /\ ~WellFormedAddress(feeRecipient)
    /\ gd # <<>> => (gd[1].FeeRecipient = <<>> \/ WellFormedAddress(gd[1].FeeRecipient))

C15_Witness ==
    /\ feeRecipient = ShortAddress /\ network = "sepolia"
    /\ pc = "Exit" /\ errs = <<"InvalidFeeRecipientError">>
    /\ NoFileOnDisk /\ calls = <<"preRunCliCmd">>

\* the lines of a document that assign a key
LinesOf(doc, key) == SelectSeq(doc, LAMBDA l : Len(l) >= 2 /\ l[1] = key /\ l[2] = "=")

\* the value a line assigns
ValueOf(line) == SubSeq(line, 3, Len(line))

C17_Original == Failed => Len(errs) = 1

\* C17 as amended: a failing execution of the run step returns a list of errors
\* that is not empty: one error from every step but the listing of the clients,
\* whose errors are returned together. The process exits with 1 exactly when
\* errors were returned, which is the exit of CliCmd.Run; no error is recorded
\* and no exit code set while the run step goes on.
C17_ErrorSurface ==
    /\ Failed => /\ Len(errs) >= 1 /\ exitCode = 1
                 /\ Len(errs) > 1 => LastCall = "Clients"
                 /\ LastCall # "Clients" => Len(errs) = 1
    /\ exitCode = 1 <=> errs # <<>>
    /\ pc # "Exit" <=> exitCode = -1
    /\ exitCode \in {-1, 0, 1}

C17_Witness ==
    /\ pc = "Exit" /\ exitCode = 1
    /\ errs = <<"ClientsError", "ClientsError">> /\ LastCall = "Clients"

\* name and image are the flag s split at its first colon
SplitAtFirstColon(s, name, image) ==
    /\ ~Contains(name, ":")
    /\ IF Contains(s, ":") THEN name \o <<":">> \o image = s
       ELSE name = s /\ image = <<>>

\* C20: once pre-run has returned, the name and the image of every client flag
\* that was given are the flag split at its first colon: no colon in the name,
\* name + ':' + image is the flag, and a flag with no colon gives the flag as the
\* name and no image; a flag that was not given leaves both empty. Generation
\* gets these images, role by role, for the clients so named.
C20_ClientImageSplit ==
    /\ (pc # "PreRun" /\ ~(pc = "Exit" /\ calls = <<"preRunCliCmd">>)) =>
          /\ probeIn[1] # <<>> => SplitAtFirstColon(probeIn[1], executionName, executionImage)
          /\ probeIn[2] # <<>> => SplitAtFirstColon(probeIn[2], consensusName, consensusImage)
          /\ probeIn[3] # <<>> => SplitAtFirstColon(probeIn[3], validatorName, validatorImage)
          /\ probeIn[1] = <<>> => executionName = <<>> /\ executionImage = <<>>
          /\ probeIn[2] = <<>> => consensusName = <<>> /\ consensusImage = <<>>
          /\ probeIn[3] = <<>> => validatorName = <<>> /\ validatorImage = <<>>
    /\ gd # <<>> =>
          /\ gd[1].ExecutionClient.image = executionImage
          /\ gd[1].ConsensusClient.image = consensusImage
          /\ gd[1].ValidatorClient.image = validatorImage
          /\ executionName # <<>> => gd[1].ExecutionClient.name = executionName
          /\ consensusName # <<>> => gd[1].ConsensusClient.name = consensusName

C20_Witness ==
    /\ probeIn[1] = <<"geth", ":", ":">>
    /\ probeIn[2] = <<"teku", ":", "repo/teku", ":", "v1">>
    /\ gd # <<>> /\ pc = "Exit" /\ exitCode = 0
    /\ gd[1].ExecutionClient.image = <<":">>
    /\ gd[1].ConsensusClient.image = <<"repo/teku", ":", "v1">>
    /\ <<"CC_IMAGE_VERSION", "=", "repo/teku", ":", "v1">> \in Range(envFile[1])

\* the place of a call in the order of the run step
StepRank(c) ==
    CASE c = "preRunCliCmd" -> 0
      [] c \in {"Clients", "validateClients"} -> 1
      [] c \in DepCalls -> 2
      [] c \in {"handleJWTSecret", "filepath.Abs"} -> 3
      [] c = "feeRecipientPrompt" -> 4
      [] c = "GenerateScripts" -> 5
      [] c = "CleanGenerated" -> 6
      [] c = "PrintFileContent" -> 7
      [] c = "preRunTeku" -> 8
      [] c \in RunCalls -> 9
      [] c = "trackSync" -> 10
      [] c \in ValidatorStartCalls -> 11

\* C21: the calls of an execution come in the order of the run step (client
\* resolution, dependency check, JWT handling, fee recipient, generation,
\* cleanup, printing, container run, sync tracking), no step but the dependency
\* check more than once (the printing is one step of two calls, a file each); a step that returns an error is the last one, and the
\* command takes no step after it; a container runs only after generation and
\* cleanup have both succeeded, with both files on disk.
C21_FailStopOrdered ==
    /\ \A i \in 1..Len(calls) : \A j \in (i+1)..Len(calls) :
          /\ StepRank(calls[i]) <= StepRank(calls[j])
          /\ StepRank(calls[i]) = StepRank(calls[j]) => StepRank(calls[i]) \in {1, 2, 7}
    /\ Count(calls, "PrintFileContent") \in {0, 2}
    /\ Contains(calls, "validateClients") => Pos("Clients") < Pos("validateClients")
    /\ errs # <<>> => pc = "Exit" /\ exitCode = 1
    /\ pc = "Exit" => ~ENABLED Next
    /\ Failed => \/ LastCall \in {"CleanGenerated", "GenerateScripts"} /\ NoFileOnDisk
                 \/ LastCall \notin {"CleanGenerated", "GenerateScripts", "PrintFileContent"}
    /\ (containers # {} \/ \E c \in RunCalls \cup ValidatorStartCalls \cup {"trackSync"} :
                              Contains(calls, c)) =>
          /\ Contains(calls, "GenerateScripts") /\ Contains(calls, "CleanGenerated")
          /\ Contains(calls, "PrintFileContent")
          /\ envFile # <<>> /\ composeFile # <<>>
          /\ envFile[1] = CleanDoc(EnvDocument(gd[1]))

C21_Witness ==
    /\ calls = <<"preRunCliCmd", "Clients", "validateClients", "CheckDependencies",
                 "installDependencies", "CheckDependencies", "handleJWTSecret",
                 "feeRecipientPrompt", "GenerateScripts", "CleanGenerated",
                 "PrintFileContent", "PrintFileContent", "preRunTeku",
                 "runAndShowContainers", "trackSync">>
    /\ Failed /\ errs = <<"TrackSyncError">>
    /\ containers = {execution, consensus}

InstallCalls == {"installDependencies", "installOrShowInstructions"}

\* the positions of the run step that come after the dependency loop
AfterDependencies ==
    {"JWT", "feeRecipientPrompt", "GenerateScripts", "CleanGenerated", "PrintFiles",
     "preRunTeku", "RunServices", "trackSync", "Polling", "RunValidator", "Return"}

\* C22: script generation is reached only when the last dependency check
\* reported nothing pending; an install or show-instructions step is taken only
\* on a check that reported something pending and is followed at once by another
\* check; an error of the installation or of the instructions prompt ends the
\* command with no file generated.
C22_GenerationOnlyWithNoPending ==
    /\ (gd # <<>> \/ Contains(calls, "GenerateScripts") \/ ~NoFileOnDisk) =>
          /\ pending = <<>>
          /\ Contains(calls, "CheckDependencies")
          /\ \A i \in 1..Len(calls) : calls[i] \in DepCalls => i < Pos("GenerateScripts")
    /\ pc \in AfterDependencies => pending = <<>> /\ Contains(calls, "CheckDependencies")
    /\ pc \in InstallCalls => pending # <<>> /\ LastCall = "CheckDependencies"
    /\ \A i \in 1..Len(calls) : calls[i] \in InstallCalls =>
          /\ i > 1 /\ calls[i-1] = "CheckDependencies"
          /\ IF i < Len(calls)
             THEN calls[i+1] = "CheckDependencies"
             ELSE pc \in {"CheckDependencies", "Exit"} /\ pending # <<>>
    /\ errs = <<"InstallDependenciesError">> => LastCall \in InstallCalls
    /\ (pc = "Exit" /\ LastCall \in InstallCalls) =>
          /\ NoFileOnDisk /\ gd = <<>> /\ ~Contains(calls, "GenerateScripts")
          /\ containers = {} /\ ~jwtGenerated
          /\ errs \in {<<>>, <<"InstallDependenciesError">>, <<"PromptError">>}
          /\ errs = <<>> => LastCall = "installOrShowInstructions" /\ exitCode = 0
          /\ errs # <<>> => exitCode = 1

C22_Witness ==
    /\ Count(calls, "CheckDependencies") = 3
    /\ Count(calls, "installOrShowInstructions") = 2 /\ depsInstalled = 2
    /\ Contains(calls, "GenerateScripts") /\ pending = <<>>
    /\ envFile # <<>> /\ composeFile # <<>>

\* the JWT step has been taken and has returned no error
JwtStepPassed ==
    \/ pc \in AfterDependencies \ {"JWT"}
    \/ pc = "Exit" /\ calls # <<>> /\ StepRank(LastCall) >= 4

\* C23: a JWT secret is generated exactly when no path was given and the network
\* requires a JWT: handleJWTSecret is called on no other input, and once the JWT
\* step has returned without error on such an input the secret exists and its
\* path is the one generation receives; a path given by the user is never
\* replaced by a generated one, and a network that requires no JWT gets none.
C23_JwtGeneratedExactlyWhenNeeded ==
    /\ Contains(calls, "handleJWTSecret") => probeIn = <<>> /\ RequireJWT(network)
    /\ jwtGenerated <=> (Contains(calls, "handleJWTSecret") /\ errs # <<"JWTSecretError">>)
    /\ jwtGenerated => jwtPath = GeneratedJwtPath
    /\ (JwtStepPassed /\ probeIn = <<>> /\ RequireJWT(network)) => jwtGenerated
    /\ probeIn # <<>> =>
          /\ ~jwtGenerated /\ jwtPath # GeneratedJwtPath
          /\ IF errs = <<"JWTPathError">> THEN jwtPath = <<>>
             ELSE jwtPath \in {probeIn, Abs(probeIn)}
    /\ ~RequireJWT(network) => ~jwtGenerated /\ (probeIn = <<>> => jwtPath = <<>>)
    /\ gd # <<>> =>
          /\ gd[1].JWTSecretPath = jwtPath
          /\ gd[1].JWTSecretPath = GeneratedJwtPath <=> (probeIn = <<>> /\ RequireJWT(network))

C23_Witness ==
    /\ probeIn = <<>> /\ network = "sepolia"
    /\ Contains(calls, "handleJWTSecret") /\ jwtGenerated
    /\ gd # <<>> /\ gd[1].JWTSecretPath = GeneratedJwtPath
    /\ envFile # <<>>

====
